---------------------------- MODULE Spec2Model ----------------------------
(* The PreToolUse hook protect-files.sh of the Universal Claude Developer  *)
(* Toolkit: it reads a tool request, extracts the file path, walks the     *)
(* list PROTECTED_PATTERNS and exits 2 (block) at the first pattern that   *)
(* matches, or 0 (allow) when the list is exhausted.                       *)
(*                                                                         *)
(* A string is a sequence of one-character strings, so that the matching   *)
(* is computed character by character as bash computes it.                 *)
EXTENDS Naturals, Sequences, FiniteSets

\* ------------------------------------------------------------------ bounds

\* Longest path of the exhaustive set AlphaPaths.
MaxLen == 5

\* Most fragments concatenated into one path of FragPaths.
MaxParts == 2

\* Most rules in a rule list of CustomLists.
MaxRules == 2

\* Most runs of the hook the host has seen end before the one under way.
MaxRuns == 2

\* Most hook processes running beside the first one.
MaxOthers == 1

\* ------------------------------------------------------- the rule table

\* The array with the entry .git entered before the entry .git/.
PatternsGitBeforeGitSlash ==
  << <<".", "e", "n", "v">>,
     <<".", "e", "n", "v", ".", "l", "o", "c", "a", "l">>,
     <<".", "e", "n", "v", ".", "*", ".", "l", "o", "c", "a", "l">>,
     <<"p", "a", "c", "k", "a", "g", "e", "-", "l", "o", "c", "k", ".", "j", "s", "o", "n">>,
     <<"y", "a", "r", "n", ".", "l", "o", "c", "k">>,
     <<".", "g", "i", "t">>,
     <<".", "g", "i", "t", "/">>,
     <<"c", "r", "e", "d", "e", "n", "t", "i", "a", "l", "s", ".", "j", "s", "o", "n">>,
     <<"s", "e", "c", "r", "e", "t", "s">>,
     <<".", "a", "w", "s", "/", "c", "r", "e", "d", "e", "n", "t", "i", "a", "l", "s">>,
     <<".", "s", "s", "h", "/">>,
     <<"*", ".", "p", "e", "m">>,
     <<"*", ".", "k", "e", "y">>,
     <<"*", ".", "c", "e", "r", "t">> >>

\* The array with the entry .env entered after .env.local and .env.*.local.
PatternsEnvLast ==
  << <<".", "e", "n", "v", ".", "l", "o", "c", "a", "l">>,
     <<".", "e", "n", "v", ".", "*", ".", "l", "o", "c", "a", "l">>,
     <<".", "e", "n", "v">>,
     <<"p", "a", "c", "k", "a", "g", "e", "-", "l", "o", "c", "k", ".", "j", "s", "o", "n">>,
     <<"y", "a", "r", "n", ".", "l", "o", "c", "k">>,
     <<".", "g", "i", "t", "/">>,
     <<".", "g", "i", "t">>,
     <<"c", "r", "e", "d", "e", "n", "t", "i", "a", "l", "s", ".", "j", "s", "o", "n">>,
     <<"s", "e", "c", "r", "e", "t", "s">>,
     <<".", "a", "w", "s", "/", "c", "r", "e", "d", "e", "n", "t", "i", "a", "l", "s">>,
     <<".", "s", "s", "h", "/">>,
     <<"*", ".", "p", "e", "m">>,
     <<"*", ".", "k", "e", "y">>,
     <<"*", ".", "c", "e", "r", "t">> >>

PROTECTED_PATTERNS ==
  << <<".", "e", "n", "v">>,
     <<".", "e", "n", "v", ".", "l", "o", "c", "a", "l">>,
     <<".", "e", "n", "v", ".", "*", ".", "l", "o", "c", "a", "l">>,
     <<"p", "a", "c", "k", "a", "g", "e", "-", "l", "o", "c", "k", ".", "j", "s", "o", "n">>,
     <<"y", "a", "r", "n", ".", "l", "o", "c", "k">>,
     <<".", "g", "i", "t", "/">>,
     <<".", "g", "i", "t">>,
     <<"c", "r", "e", "d", "e", "n", "t", "i", "a", "l", "s", ".", "j", "s", "o", "n">>,
     <<"s", "e", "c", "r", "e", "t", "s">>,
     <<".", "a", "w", "s", "/", "c", "r", "e", "d", "e", "n", "t", "i", "a", "l", "s">>,
     <<".", "s", "s", "h", "/">>,
     <<"*", ".", "p", "e", "m">>,
     <<"*", ".", "k", "e", "y">>,
     <<"*", ".", "c", "e", "r", "t">> >>

\* The literal the loop compares each pattern with: [[ "$pattern" == ".git" ]].
DotGit == <<".", "g", "i", "t">>

\* ------------------------------------------------------------ matching

\* The lower-case form of a character, for the capitals the named paths use.
LowerChar(c) ==
  CASE c = "E" -> "e" [] c = "N" -> "n" [] c = "V" -> "v" [] c = "G" -> "g"
    [] c = "I" -> "i" [] c = "T" -> "t" [] c = "S" -> "s" [] c = "C" -> "c"
    [] c = "R" -> "r" [] OTHER -> c

Lower(P) == [j \in 1..Len(P) |-> LowerChar(P[j])]

\* The comparison under shopt -s nocasematch: characters are compared
\* without regard to case.
OccursAtNoCase(P, S, k) ==
  /\ k + Len(S) <= Len(P)
  /\ Lower(SubSeq(P, k + 1, k + Len(S))) = Lower(S)

\* S occurs in P with its first character at position k + 1.
OccursAt(P, S, k) ==
  /\ k + Len(S) <= Len(P)
  /\ SubSeq(P, k + 1, k + Len(S)) = S

\* The leading * left out, [[ "$FILE_PATH" == "$pattern"* ]]: the pattern must
\* open the path.
SubstringMatchPrefix(P, pat) == OccursAt(P, pat, 0)

\* The pattern left unquoted, [[ "$FILE_PATH" == *$pattern* ]]: a * that opens
\* the pattern is a wildcard, and the rest of the pattern is what must occur.
SubstringMatchGlob(P, pat) ==
  LET text == IF Len(pat) > 0 /\ pat[1] = "*" THEN Tail(pat) ELSE pat
  IN  \E k \in 0..Len(P) : OccursAt(P, text, k)

\* [[ "$FILE_PATH" == *"$pattern"* ]]: the quoted pattern is literal text,
\* so the test is plain containment.
SubstringMatch(P, pat) ==
  \E k \in 0..Len(P) : OccursAt(P, pat, k)

\* The regular expression (^|/)\.git(/|$), one operator per part. Each gives
\* the positions at which the part can end when it starts at position s
\* (positions count the characters consumed so far).
\* The first group left out: the expression \.git(/|$), which also accepts
\* repo.git/HEAD.
GroupStartMissing(P, s) == {s}

\* The first group without its "/" alternative: the expression ^\.git(/|$),
\* which accepts .git only where it opens the path.
GroupStartCaretOnly(P, s) ==
  {e \in {s} : s = 0}

GroupStartEnds(P, s) ==
  {e \in {s, s + 1} :
     \/ e = s /\ s = 0
     \/ e = s + 1 /\ s < Len(P) /\ P[s + 1] = "/"}

\* The dot left unescaped, (^|/).git(/|$): any character stands where the
\* dot is, so /xgit is accepted.
LiteralEndsUnescapedDot(P, s) ==
  {e \in {s + Len(DotGit)} :
     /\ s + Len(DotGit) <= Len(P)
     /\ SubSeq(P, s + 2, s + Len(DotGit)) = Tail(DotGit)}

LiteralEnds(P, s) ==
  {e \in {s + Len(DotGit)} : OccursAt(P, DotGit, s)}

\* The second group left out: the expression (^|/)\.git, which also accepts
\* .github.
GroupEndMissing(P, s) == {s}

\* The second group without its $ alternative: the expression (^|/)\.git/.
GroupEndSlashOnly(P, s) ==
  {e \in {s + 1} : s < Len(P) /\ P[s + 1] = "/"}

GroupEndEnds(P, s) ==
  {e \in {s, s + 1} :
     \/ e = s + 1 /\ s < Len(P) /\ P[s + 1] = "/"
     \/ e = s /\ s = Len(P)}

\* A search that gives up at the leftmost .git: only the first occurrence of
\* the literal is tried against the two groups.
GitRegexMatchFirstOnly(P) ==
  LET occ == {a \in 0..Len(P) : LiteralEnds(P, a) # {}}
  IN  /\ occ # {}
      /\ LET first == CHOOSE a \in occ : \A b \in occ : a <= b
         IN  /\ \E s \in 0..Len(P) : first \in GroupStartEnds(P, s)
             /\ GroupEndEnds(P, first + Len(DotGit)) # {}

\* [[ "$FILE_PATH" =~ (^|/)\.git(/|$) ]]: an unanchored search, so the match
\* may start at any position.
GitRegexMatch(P) ==
  \E s \in 0..Len(P) :
    \E a \in GroupStartEnds(P, s) :
      \E b \in LiteralEnds(P, a) :
        GroupEndEnds(P, b) # {}

\* The branch for .git left out, as before the fix: every entry is a substring.
MatchesSubstringOnly(P, pat) == SubstringMatch(P, pat)

\* The entry .git/ given a boundary on its leading side as well: it must
\* open the path or follow a "/".
MatchesGitSlashAnchored(P, pat) ==
  IF pat = DotGit THEN GitRegexMatch(P)
  ELSE IF pat = DotGit \o <<"/">>
       THEN \E k \in 0..Len(P) : OccursAt(P, pat, k) /\ (k = 0 \/ P[k] = "/")
       ELSE SubstringMatch(P, pat)

\* One iteration's test: the .git entry takes the regex branch, every other
\* entry the substring branch.
Matches(P, pat) ==
  IF pat = DotGit THEN GitRegexMatch(P) ELSE SubstringMatch(P, pat)

\* --------------------------------------------------------------- state

VARIABLES
  INPUT,      \* the request on stdin
  rules,      \* the pattern list the loop walks
  FILE_PATH,  \* the extracted path
  pc,         \* "read", "loop" or "exited"
  idx,        \* position of the loop in rules
  tested,     \* the positions whose pattern has been tested, in order
  stderr,     \* the lines written to the diagnostic stream
  exitCode,   \* 0 or 2 once exited, NoExit before
  runs,       \* the runs of the hook that have ended, oldest first
  procs,      \* the hook processes running side by side
  detect,     \* the run of detectFramework
  workflow    \* the run of the Review & Release workflow

\* What a step of the single hook process leaves alone.
elsewhere == <<runs, procs, detect, workflow>>

vars == <<INPUT, rules, FILE_PATH, pc, idx, tested, stderr, exitCode, runs, procs, detect,
          workflow>>

NoExit == 99

\* detectFramework has not been called.
NotDetecting == [step |-> "idle"]

\* No validation has been started, so no run of the workflow exists.
NoWorkflow == [validation |-> "idle"]

\* ------------------------------------------------------------- inputs

NL == "\n"

\* Letters of the exhaustive path set: the characters of .git and of its
\* neighbours .github and x.gity.
Alphabet == {".", "/", "g", "i", "t", "h", "x"}

\* Every string over Alphabet of length at most MaxLen.
AlphaPaths == UNION {[1..n -> Alphabet] : n \in 0..MaxLen}

\* Pieces longer paths are built from: the patterns themselves, the segment
\* separator, and text that turns a pattern into a near miss.
Fragments ==
  {PROTECTED_PATTERNS[k] : k \in 1..Len(PROTECTED_PATTERNS)} \cup
  { <<"/">>, <<"x">>, <<"h", "u", "b">>, <<".", "p", "e", "m">>, <<NL>> }

RECURSIVE Concats(_)
Concats(n) ==
  IF n = 0 THEN {<<>>}
  ELSE LET shorter == Concats(n - 1)
       IN  shorter \cup {p \o f : p \in shorter, f \in Fragments}

\* Every concatenation of at most MaxParts fragments.
FragPaths == Concats(MaxParts)

\* Paths the documentation names, and one path per substring pattern with
\* directory context around it.
GithubCiYml == <<".", "g", "i", "t", "h", "u", "b", "/", "w", "o", "r", "k", "f", "l", "o", "w", "s", "/", "c", "i", ".", "y", "m", "l">>

RepoGithub == <<"r", "e", "p", "o", "/", ".", "g", "i", "t", "h", "u", "b">>

Gitignore == <<".", "g", "i", "t", "i", "g", "n", "o", "r", "e">>

GithubDeployYml == <<"/", "w", "o", "r", "k", "s", "p", "a", "c", "e", "/", "p", "r", "o", "j", "e", "c", "t", "/", ".", "g", "i", "t", "h", "u", "b", "/", "w", "o", "r", "k", "f", "l", "o", "w", "s", "/", "d", "e", "p", "l", "o", "y", ".", "y", "m", "l">>

GitConfig == <<".", "g", "i", "t", "/", "c", "o", "n", "f", "i", "g">>

RepoGit == <<"r", "e", "p", "o", "/", ".", "g", "i", "t">>

AGit == <<"a", "/", ".", "g", "i", "t">>

AGitObjects == <<"a", "/", ".", "g", "i", "t", "/", "o", "b", "j", "e", "c", "t", "s">>

UserProfileTsx == <<"s", "r", "c", "/", "c", "o", "m", "p", "o", "n", "e", "n", "t", "s", "/", "U", "s", "e", "r", "P", "r", "o", "f", "i", "l", "e", ".", "t", "s", "x">>

BackendEnvProduction == <<"b", "a", "c", "k", "e", "n", "d", "/", ".", "e", "n", "v", ".", "p", "r", "o", "d", "u", "c", "t", "i", "o", "n">>

ConfigSecretsDbJson == <<"c", "o", "n", "f", "i", "g", "/", "s", "e", "c", "r", "e", "t", "s", "/", "d", "b", ".", "j", "s", "o", "n">>

XGity == <<"x", ".", "g", "i", "t", "y">>

WebPackageLock == <<"w", "e", "b", "/", "p", "a", "c", "k", "a", "g", "e", "-", "l", "o", "c", "k", ".", "j", "s", "o", "n">>

AppYarnLock == <<"a", "p", "p", "/", "y", "a", "r", "n", ".", "l", "o", "c", "k">>

GcpCredentialsJson == <<"g", "c", "p", "/", "c", "r", "e", "d", "e", "n", "t", "i", "a", "l", "s", ".", "j", "s", "o", "n">>

HomeAwsCredentials == <<"h", "o", "m", "e", "/", ".", "a", "w", "s", "/", "c", "r", "e", "d", "e", "n", "t", "i", "a", "l", "s">>

HomeSshIdRsa == <<"h", "o", "m", "e", "/", ".", "s", "s", "h", "/", "i", "d", "_", "r", "s", "a">>

SecretsEnv == <<"s", "e", "c", "r", "e", "t", "s", "/", ".", "e", "n", "v">>

DotGithub == <<".", "g", "i", "t", "h", "u", "b">>

RepoGitHead == <<"r", "e", "p", "o", ".", "g", "i", "t", "/", "H", "E", "A", "D">>

VendorLibGitConfig == <<"v", "e", "n", "d", "o", "r", "/", "l", "i", "b", ".", "g", "i", "t", "/", "c", "o", "n", "f", "i", "g">>

CertsServerPem == <<"c", "e", "r", "t", "s", "/", "s", "e", "r", "v", "e", "r", ".", "p", "e", "m">>

IdRsaKey == <<"i", "d", "_", "r", "s", "a", ".", "k", "e", "y">>

TlsSiteCert == <<"t", "l", "s", "/", "s", "i", "t", "e", ".", "c", "e", "r", "t">>

StarPemPath == <<"k", "e", "y", "s", "/", "*", ".", "p", "e", "m">>

GithubSubGit == <<".", "g", "i", "t", "h", "u", "b", "/", "s", "u", "b", "/", ".", "g", "i", "t">>

XGityGitConfig == <<"x", ".", "g", "i", "t", "y", "/", ".", "g", "i", "t", "/", "c", "o", "n", "f", "i", "g">>

EnvProductionLocal == <<".", "e", "n", "v", ".", "p", "r", "o", "d", "u", "c", "t", "i", "o", "n", ".", "l", "o", "c", "a", "l">>

AppEnvLocal == <<"a", "p", "p", "/", ".", "e", "n", "v", ".", "l", "o", "c", "a", "l">>

EnvStarLocalPath == <<"c", "f", "g", "/", ".", "e", "n", "v", ".", "*", ".", "l", "o", "c", "a", "l">>

SrcGit == <<"s", "r", "c", "/", ".", "g", "i", "t">>

DotEnvUpper == <<".", "E", "N", "V">>

GitUpperConfig == <<".", "G", "I", "T", "/", "c", "o", "n", "f", "i", "g">>

SecretsUpperDbJson == <<"S", "E", "C", "R", "E", "T", "S", "/", "d", "b", ".", "j", "s", "o", "n">>

GitBackslashConfig == <<".", "g", "i", "t", "\\", "c", "o", "n", "f", "i", "g">>

NamedPaths ==
  {GithubSubGit,
   XGityGitConfig,
   EnvProductionLocal,
   AppEnvLocal,
   EnvStarLocalPath,
   SrcGit,
   DotEnvUpper,
   GitUpperConfig,
   SecretsUpperDbJson,
   GitBackslashConfig,
   DotGithub,
   RepoGitHead,
   VendorLibGitConfig,
   CertsServerPem,
   IdRsaKey,
   TlsSiteCert,
   StarPemPath,
   GithubCiYml,
   RepoGithub,
   Gitignore,
   GithubDeployYml,
   GitConfig,
   RepoGit,
   AGit,
   AGitObjects,
   UserProfileTsx,
   BackendEnvProduction,
   ConfigSecretsDbJson,
   XGity,
   WebPackageLock,
   AppYarnLock,
   GcpCredentialsJson,
   HomeAwsCredentials,
   HomeSshIdRsa,
   SecretsEnv}

\* ----------------------------------------------------------- extraction

\* The filter without "// empty", jq -r '.tool_input.file_path': null, false
\* and a missing field are printed as JSON text.
JqStdoutNoAlternative(req) ==
  CASE req.kind = "string" -> req.value \o <<NL>>
    [] req.kind = "number" -> req.value \o <<NL>>
    [] req.kind = "true"   -> <<"t", "r", "u", "e", NL>>
    [] req.kind = "false"  -> <<"f", "a", "l", "s", "e", NL>>
    [] req.kind \in {"null", "absent", "no_tool_input"} -> <<"n", "u", "l", "l", NL>>
    [] OTHER               -> <<>>

\* What jq -r '.tool_input.file_path // empty' prints for a request. A string
\* is printed raw and a number or true as its JSON text, each followed by a
\* newline; null, false, a missing field and a parse error print nothing.
JqStdout(req) ==
  CASE req.kind = "string" -> req.value \o <<NL>>
    [] req.kind = "number" -> req.value \o <<NL>>
    [] req.kind = "true"   -> <<"t", "r", "u", "e", NL>>
    [] OTHER               -> <<>>

\* Command substitution $(...) drops every trailing newline of the output.
RECURSIVE StripTrailingNewlines(_)
StripTrailingNewlines(s) ==
  IF s # <<>> /\ s[Len(s)] = NL
  THEN StripTrailingNewlines(SubSeq(s, 1, Len(s) - 1))
  ELSE s

\* FILE_PATH=$(echo "$INPUT" | jq -r '.tool_input.file_path // empty')
ExtractFilePath(req) == StripTrailingNewlines(JqStdout(req))

\* --------------------------------------------------------- diagnostics

\* The three echo lines of a block. A line is the tuple of its pieces: fixed
\* text as a string, an interpolated variable as its characters. The sign that
\* opens the first line is left out of its fixed text, and the fixed text of
\* the second line is split after "Reason: " so that the reason can be named.
BlockReport(path, pattern) ==
  << <<"Blocked: Cannot edit '", path, "'">>,
     <<"   Reason: ", "Matches protected pattern '", pattern, "'">>,
     <<"   This file is critical to project integrity and should not be modified.">> >>

\* The list without its entry at position k.
Remove(list, k) ==
  [j \in 1..(Len(list) - 1) |-> IF j < k THEN list[j] ELSE list[j + 1]]

\* The entry .git/ of the table, and the table with that entry taken out.
GitSlash == PROTECTED_PATTERNS[6]

TableWithoutGitSlash == Remove(PROTECTED_PATTERNS, 6)

\* ------------------------------------------------------ the whole loop

\* The exit status of the loop started at position k of the list: 2 at the
\* first pattern from k on that matches, 0 past the end of the list.
RECURSIVE EvaluateFrom(_, _, _)
EvaluateFrom(P, list, k) ==
  IF k > Len(list) THEN 0
  ELSE IF Matches(P, list[k]) THEN 2
  ELSE EvaluateFrom(P, list, k + 1)

Evaluate(P, list) == EvaluateFrom(P, list, 1)

\* -------------------------------------------------------------- actions

\* INPUT=$(cat) and the extraction of FILE_PATH; the loop starts at the
\* first pattern.
ReadInput ==
  /\ pc = "read"
  /\ FILE_PATH' = ExtractFilePath(INPUT)
  /\ pc' = "loop"
  /\ idx' = 1
  /\ UNCHANGED <<INPUT, rules, tested, stderr, exitCode>>
  /\ UNCHANGED elsewhere

\* exit 0 inside the loop instead of after it: a pattern that does not match
\* ends the run as allowed.
CheckPatternExitInside ==
  /\ pc = "loop"
  /\ idx <= Len(rules)
  /\ LET pattern == rules[idx]
     IN  /\ tested' = Append(tested, idx)
         /\ pc' = "exited"
         /\ idx' = idx
         /\ IF Matches(FILE_PATH, pattern)
            THEN /\ stderr' = stderr \o BlockReport(FILE_PATH, pattern)
                 /\ exitCode' = 2
            ELSE /\ exitCode' = 0
                 /\ UNCHANGED stderr
  /\ UNCHANGED <<INPUT, rules, FILE_PATH>>
  /\ UNCHANGED elsewhere

\* exit 2 left out of both branches: a match is reported and the loop goes on.
CheckPatternNoExit ==
  /\ pc = "loop"
  /\ idx <= Len(rules)
  /\ LET pattern == rules[idx]
     IN  /\ tested' = Append(tested, idx)
         /\ idx' = idx + 1
         /\ stderr' = IF Matches(FILE_PATH, pattern)
                      THEN stderr \o BlockReport(FILE_PATH, pattern)
                      ELSE stderr
  /\ UNCHANGED <<INPUT, rules, FILE_PATH, exitCode, pc>>
  /\ UNCHANGED elsewhere

\* A loop that does not advance: a pattern that does not match is tested
\* again.
CheckPatternNoAdvance ==
  /\ pc = "loop"
  /\ idx <= Len(rules)
  /\ LET pattern == rules[idx]
     IN  /\ tested' = Append(tested, idx)
         /\ idx' = idx
         /\ IF Matches(FILE_PATH, pattern)
            THEN /\ stderr' = stderr \o BlockReport(FILE_PATH, pattern)
                 /\ exitCode' = 2
                 /\ pc' = "exited"
            ELSE UNCHANGED <<stderr, exitCode, pc>>
  /\ UNCHANGED <<INPUT, rules, FILE_PATH>>
  /\ UNCHANGED elsewhere

\* A loop that consumes its list: a pattern that did not match is dropped
\* from the array and the next one moves into its place.
CheckPatternConsumes ==
  /\ pc = "loop"
  /\ idx <= Len(rules)
  /\ LET pattern == rules[idx]
     IN  /\ tested' = Append(tested, idx)
         /\ idx' = idx
         /\ IF Matches(FILE_PATH, pattern)
            THEN /\ stderr' = stderr \o BlockReport(FILE_PATH, pattern)
                 /\ exitCode' = 2
                 /\ pc' = "exited"
                 /\ UNCHANGED rules
            ELSE /\ rules' = Remove(rules, idx)
                 /\ UNCHANGED <<stderr, exitCode, pc>>
  /\ UNCHANGED <<INPUT, FILE_PATH>>
  /\ UNCHANGED elsewhere

\* The echo lines without their >&2: the report goes to standard output and
\* the diagnostic stream stays empty.
CheckPatternEchoStdout ==
  /\ pc = "loop"
  /\ idx <= Len(rules)
  /\ LET pattern == rules[idx]
     IN  /\ tested' = Append(tested, idx)
         /\ IF Matches(FILE_PATH, pattern)
            THEN /\ exitCode' = 2
                 /\ pc' = "exited"
                 /\ idx' = idx
                 /\ UNCHANGED stderr
            ELSE /\ idx' = idx + 1
                 /\ UNCHANGED <<stderr, exitCode, pc>>
  /\ UNCHANGED <<INPUT, rules, FILE_PATH>>
  /\ UNCHANGED elsewhere

\* One iteration of the for loop: test the pattern at idx; on a match write
\* the report and exit 2, otherwise go on to the next pattern.
CheckPattern ==
  /\ pc = "loop"
  /\ idx <= Len(rules)
  /\ LET pattern == rules[idx]
     IN  /\ tested' = Append(tested, idx)
         /\ IF Matches(FILE_PATH, pattern)
            THEN /\ stderr' = stderr \o BlockReport(FILE_PATH, pattern)
                 /\ exitCode' = 2
                 /\ pc' = "exited"
                 /\ idx' = idx
            ELSE /\ idx' = idx + 1
                 /\ UNCHANGED <<stderr, exitCode, pc>>
  /\ UNCHANGED <<INPUT, rules, FILE_PATH>>
  /\ UNCHANGED elsewhere

\* The loop ended without a match: exit 0.
ExitAllow ==
  /\ pc = "loop"
  /\ idx > Len(rules)
  /\ exitCode' = 0
  /\ pc' = "exited"
  /\ UNCHANGED <<INPUT, rules, FILE_PATH, idx, tested, stderr>>
  /\ UNCHANGED elsewhere

Next == ReadInput \/ CheckPattern \/ ExitAllow

\* ------------------------------------------------------- specifications

\* The requests a host can send: a string path, or one of the other shapes
\* of the file_path field.
Requests(paths) ==
  {[kind |-> "string", value |-> P] : P \in paths} \cup
  {[kind |-> k, value |-> <<>>] :
     k \in {"malformed", "no_tool_input", "absent", "null", "false", "true"}} \cup
  {[kind |-> "number", value |-> <<"7">>]}

Start(requests, lists) ==
  /\ INPUT \in requests
  /\ rules \in lists
  /\ FILE_PATH = <<>>
  /\ pc = "read"
  /\ idx = 0
  /\ tested = <<>>
  /\ stderr = <<>>
  /\ exitCode = NoExit
  /\ runs = <<>>
  /\ procs = <<>>
  /\ detect = NotDetecting
  /\ workflow = NoWorkflow

\* The hook as shipped: the default table, every modelled path.
Paths == AlphaPaths \cup FragPaths \cup NamedPaths

Init == Start(Requests(Paths), {PROTECTED_PATTERNS})

Spec == Init /\ [][Next]_vars

\* The hook as shipped on the paths put together from the patterns and on
\* the paths the documentation names.
TablePaths == FragPaths \cup NamedPaths

TableInit == Start(Requests(TablePaths), {PROTECTED_PATTERNS})

SpecTable == TableInit /\ [][Next]_vars

\* Paths with directory context: each seed alone, under a directory, above
\* a file, and with text put straight after it. The seeds are the patterns
\* and the named paths; the context is empty, a name, or two names.
ContextStrings ==
  {<<>>, <<"x">>, <<"h", "u", "b">>, <<"a", "/", "b">>, <<".">>, <<".", "g", "i", "t">>}

ContextSeeds ==
  {PROTECTED_PATTERNS[k] : k \in 1..Len(PROTECTED_PATTERNS)} \cup NamedPaths

ContextPaths ==
  ContextSeeds \cup
  {D \o <<"/">> \o P : D \in ContextStrings, P \in ContextSeeds} \cup
  {P \o <<"/">> \o F : P \in ContextSeeds, F \in ContextStrings} \cup
  {P \o F : P \in ContextSeeds, F \in ContextStrings}

ContextInit == Start(Requests(ContextPaths), {PROTECTED_PATTERNS})

SpecContext == ContextInit /\ [][Next]_vars

\* The list with the entries at positions a and b exchanged.
Swap(list, a, b) ==
  [k \in 1..Len(list) |->
     IF k = a THEN list[b] ELSE IF k = b THEN list[a] ELSE list[k]]

\* The list started r entries later, the skipped entries moved to the end.
Rotate(list, r) ==
  [k \in 1..Len(list) |-> list[((k + r - 1) % Len(list)) + 1]]

Reverse(list) ==
  [k \in 1..Len(list) |-> list[Len(list) + 1 - k]]

\* Orders of the default table: the table itself, every exchange of two
\* entries, every rotation, and each of those reversed.
Reorderings ==
  LET n == Len(PROTECTED_PATTERNS)
      forward == {Swap(PROTECTED_PATTERNS, a, b) : a \in 1..n, b \in 1..n} \cup
                 {Rotate(PROTECTED_PATTERNS, r) : r \in 0..(n - 1)}
  IN  forward \cup {Reverse(list) : list \in forward}

\* Patterns of a table edited by hand: one of each kind, a separator, and the
\* empty pattern.
CustomPatterns == { <<>>, DotGit, <<".", "e", "n", "v">>, <<"/">> }

\* Every list of at most MaxRules custom patterns, the empty list included.
CustomLists == UNION {[1..n -> CustomPatterns] : n \in 0..MaxRules}

RuleLists == Reorderings \cup CustomLists

\* Paths for the runs under other rule lists: each fragment alone, each pair
\* of patterns one after the other, and the named paths.
RulePaths ==
  {<<>>} \cup Fragments \cup NamedPaths \cup
  {PROTECTED_PATTERNS[a] \o PROTECTED_PATTERNS[b] :
     a \in 1..Len(PROTECTED_PATTERNS), b \in 1..Len(PROTECTED_PATTERNS)}

\* The hook with its PROTECTED_PATTERNS array reordered or edited.
RulesInit == Start(Requests(RulePaths), RuleLists)

SpecRules == RulesInit /\ [][Next]_vars

\* The hook is one bash process that nothing suspends: while a step is
\* possible, one is taken.
FairSpec == SpecRules /\ WF_vars(Next)

\* ------------------------------------------------- one run after another

\* What the host keeps of a run that has ended.
RunRecord ==
  [path |-> FILE_PATH, rules |-> rules, exitCode |-> exitCode, stderr |-> stderr]

\* The requests of the runs that follow one another.
SeqRequests ==
  {[kind |-> "string", value |-> P] :
     P \in {<<>>, DotGit, DotGithub, SecretsEnv, RepoGitHead, UserProfileTsx}} \cup
  {[kind |-> "null", value |-> <<>>]}

\* The hook started again without a fresh diagnostic stream: the lines of the
\* earlier run stay in it.
ReinvokeKeepsStderr ==
  /\ pc = "exited"
  /\ Len(runs) < MaxRuns
  /\ runs' = Append(runs, RunRecord)
  /\ INPUT' \in SeqRequests
  /\ FILE_PATH' = <<>>
  /\ pc' = "read"
  /\ idx' = 0
  /\ tested' = <<>>
  /\ exitCode' = NoExit
  /\ UNCHANGED <<rules, stderr, procs, detect, workflow>>

\* The host starts the hook for the next request once a run has ended: a new
\* bash process, with nothing of the earlier one but the script.
Reinvoke ==
  /\ pc = "exited"
  /\ Len(runs) < MaxRuns
  /\ runs' = Append(runs, RunRecord)
  /\ INPUT' \in SeqRequests
  /\ FILE_PATH' = <<>>
  /\ pc' = "read"
  /\ idx' = 0
  /\ tested' = <<>>
  /\ stderr' = <<>>
  /\ exitCode' = NoExit
  /\ UNCHANGED <<rules, procs, detect, workflow>>

NextSeq == ReadInput \/ CheckPattern \/ ExitAllow \/ Reinvoke

SeqInit == Start(SeqRequests, {PROTECTED_PATTERNS, Reverse(PROTECTED_PATTERNS)})

SpecSeq == SeqInit /\ [][NextSeq]_vars

\* ------------------------------------------------- runs side by side

\* A hook process the host has just started for a request.
ProcStart(req) ==
  [INPUT |-> req, FILE_PATH |-> <<>>, pc |-> "read", idx |-> 0,
   stderr |-> <<>>, exitCode |-> NoExit]

\* The next step of a hook process that has not ended, on its own variables:
\* the extraction, one iteration of the loop, or the final exit 0.
ProcStep(r, list) ==
  IF r.pc = "read"
  THEN [r EXCEPT !.FILE_PATH = ExtractFilePath(r.INPUT), !.pc = "loop", !.idx = 1]
  ELSE IF r.idx <= Len(list)
       THEN IF Matches(r.FILE_PATH, list[r.idx])
            THEN [r EXCEPT !.stderr = @ \o BlockReport(r.FILE_PATH, list[r.idx]),
                           !.exitCode = 2,
                           !.pc = "exited"]
            ELSE [r EXCEPT !.idx = @ + 1]
       ELSE [r EXCEPT !.exitCode = 0, !.pc = "exited"]

\* The loop position kept in one place for all processes: a step of process
\* p moves the position of every process still in its loop.
ProcRunSharedIndex(p) ==
  /\ procs[p].pc # "exited"
  /\ LET after == ProcStep(procs[p], rules)
     IN  /\ procs' = [q \in DOMAIN procs |->
                        IF q = p THEN after
                        ELSE IF procs[q].pc = "loop"
                             THEN [procs[q] EXCEPT !.idx = after.idx]
                             ELSE procs[q]]
         /\ idx' = IF pc = "loop" THEN after.idx ELSE idx
  /\ UNCHANGED <<INPUT, rules, FILE_PATH, pc, tested, stderr, exitCode, runs, detect, workflow>>

\* Process p takes its next step; a process has its own variables, its own
\* copy of the array and its own diagnostic stream.
ProcRun(p) ==
  /\ procs[p].pc # "exited"
  /\ procs' = [procs EXCEPT ![p] = ProcStep(procs[p], rules)]
  /\ UNCHANGED <<INPUT, rules, FILE_PATH, pc, idx, tested, stderr, exitCode, runs, detect, workflow>>

NextConc ==
  \/ ReadInput
  \/ CheckPattern
  \/ ExitAllow
  \/ \E p \in DOMAIN procs : ProcRun(p)

\* The first process and up to MaxOthers others, each started for a request
\* of its own, all under the default table.
ConcInit ==
  /\ INPUT \in SeqRequests
  /\ rules = PROTECTED_PATTERNS
  /\ FILE_PATH = <<>>
  /\ pc = "read"
  /\ idx = 0
  /\ tested = <<>>
  /\ stderr = <<>>
  /\ exitCode = NoExit
  /\ runs = <<>>
  /\ procs \in UNION {[1..n -> {ProcStart(req) : req \in SeqRequests}] : n \in 1..MaxOthers}
  /\ detect = NotDetecting
  /\ workflow = NoWorkflow

SpecConc == ConcInit /\ [][NextConc]_vars

\* ---------------------------------------------------- detectFramework

\* What detectFramework can find under projectRoot, one field per question
\* the function asks: files matching *.csproj and *.sln, manage.py,
\* next.config.js, next.config.mjs, package.json with "next" and "django"
\* among its dependencies, requirements.txt and whether its contents name
\* django or djangorestframework, appsettings.json, the directory app/.
\* orReading is how the condition "django" or "djangorestframework" in
\* contents is evaluated: "contains" tests the contents for either name,
\* "truthy" takes the non-empty string "django" as true.
Projects ==
  {p \in [csproj : BOOLEAN, sln : BOOLEAN, managePy : BOOLEAN,
          nextConfigJs : BOOLEAN, nextConfigMjs : BOOLEAN,
          packageJson : BOOLEAN, depsNext : BOOLEAN, depsDjango : BOOLEAN,
          requirementsTxt : BOOLEAN, reqDjango : BOOLEAN,
          appsettings : BOOLEAN, appDir : BOOLEAN,
          orReading : {"contains", "truthy"}] :
     /\ (p.depsNext \/ p.depsDjango) => p.packageJson
     /\ p.reqDjango => p.requirementsTxt}

\* detectFramework(projectRoot) at its first check.
DetectStart(p) ==
  [step |-> "dotnet_marker", project |-> p, consulted |-> <<>>, result |-> "none"]

\* One if of the function on the record d: the check named name is made;
\* when it hits, the function returns verdict, otherwise it goes on to the
\* check named next.
Checked(d, name, hit, verdict, next) ==
  [d EXCEPT !.consulted = Append(@, name),
            !.step = IF hit THEN "returned" ELSE next,
            !.result = IF hit THEN verdict ELSE @]

\* The variables of the hook, which detectFramework does not touch.
hookVars == <<INPUT, rules, FILE_PATH, pc, idx, tested, stderr, exitCode, runs, procs>>

\* The first check asking for *.csproj only.
CheckDotnetMarkerCsprojOnly ==
  /\ detect.step = "dotnet_marker"
  /\ detect' = Checked(detect, "dotnet_marker", detect.project.csproj, "dotnet", "django_marker")
  /\ UNCHANGED <<hookVars, workflow>>

\* Priority 1: fileExists(projectRoot, "*.csproj") or fileExists(projectRoot, "*.sln").
CheckDotnetMarker ==
  /\ detect.step = "dotnet_marker"
  /\ detect' = Checked(detect, "dotnet_marker", detect.project.csproj \/ detect.project.sln,
             "dotnet", "django_marker")
  /\ UNCHANGED <<hookVars, workflow>>

\* The Priority 1 check for manage.py asking for settings.py instead, which
\* the function knows nothing of: the check never hits.
CheckDjangoMarkerNeverHits ==
  /\ detect.step = "django_marker"
  /\ detect' = Checked(detect, "django_marker", FALSE, "django", "nextjs_marker")
  /\ UNCHANGED <<hookVars, workflow>>

\* Priority 1: fileExists(projectRoot, "manage.py").
CheckDjangoMarker ==
  /\ detect.step = "django_marker"
  /\ detect' = Checked(detect, "django_marker", detect.project.managePy, "django", "nextjs_marker")
  /\ UNCHANGED <<hookVars, workflow>>

\* Priority 1: fileExists(projectRoot, "next.config.js|next.config.mjs").
CheckNextjsMarker ==
  /\ detect.step = "nextjs_marker"
  /\ detect' = Checked(detect, "nextjs_marker", detect.project.nextConfigJs \/ detect.project.nextConfigMjs,
             "nextjs", "package_json")
  /\ UNCHANGED <<hookVars, workflow>>

\* Priority 2: package.json and its dependencies, "next" asked before "django".
CheckPackageJson ==
  /\ detect.step = "package_json"
  /\ detect' = Checked(detect, "package_json",
             detect.project.packageJson /\ (detect.project.depsNext \/ detect.project.depsDjango),
             IF detect.project.depsNext THEN "nextjs" ELSE "django",
             "requirements_txt")
  /\ UNCHANGED <<hookVars, workflow>>

\* Priority 2: requirements.txt and the condition on its contents.
CheckRequirementsTxt ==
  /\ detect.step = "requirements_txt"
  /\ detect' = Checked(detect, "requirements_txt",
             /\ detect.project.requirementsTxt
             /\ (detect.project.orReading = "truthy" \/ detect.project.reqDjango),
             "django", "appsettings_json")
  /\ UNCHANGED <<hookVars, workflow>>

\* Priority 2: hasFile("appsettings.json").
CheckAppsettings ==
  /\ detect.step = "appsettings_json"
  /\ detect' = Checked(detect, "appsettings_json", detect.project.appsettings, "dotnet", "app_directory")
  /\ UNCHANGED <<hookVars, workflow>>

\* Priority 3: hasDirectory("app/") and hasFile("package.json").
CheckAppDirectory ==
  /\ detect.step = "app_directory"
  /\ detect' = Checked(detect, "app_directory", detect.project.appDir /\ detect.project.packageJson,
             "nextjs", "manage_py_weak")
  /\ UNCHANGED <<hookVars, workflow>>

\* Priority 3: hasFile("manage.py").
CheckManagePyWeak ==
  /\ detect.step = "manage_py_weak"
  /\ detect' = Checked(detect, "manage_py_weak", detect.project.managePy, "django", "csproj_weak")
  /\ UNCHANGED <<hookVars, workflow>>

\* Priority 3: hasFile("*.csproj").
CheckCsprojWeak ==
  /\ detect.step = "csproj_weak"
  /\ detect' = Checked(detect, "csproj_weak", detect.project.csproj, "dotnet", "no_match")
  /\ UNCHANGED <<hookVars, workflow>>

\* return "unknown"
ReturnUnknown ==
  /\ detect.step = "no_match"
  /\ detect' = [detect EXCEPT !.step = "returned", !.result = "unknown"]
  /\ UNCHANGED <<hookVars, workflow>>

NextDetect ==
  \/ CheckDotnetMarker
  \/ CheckDjangoMarker
  \/ CheckNextjsMarker
  \/ CheckPackageJson
  \/ CheckRequirementsTxt
  \/ CheckAppsettings
  \/ CheckAppDirectory
  \/ CheckManagePyWeak
  \/ CheckCsprojWeak
  \/ ReturnUnknown

\* detectFramework called on a project; the hook has not been started.
DetectInit ==
  /\ INPUT = [kind |-> "absent", value |-> <<>>]
  /\ rules = PROTECTED_PATTERNS
  /\ FILE_PATH = <<>>
  /\ pc = "read"
  /\ idx = 0
  /\ tested = <<>>
  /\ stderr = <<>>
  /\ exitCode = NoExit
  /\ runs = <<>>
  /\ procs = <<>>
  /\ detect \in {DetectStart(p) : p \in Projects}
  /\ workflow = NoWorkflow

SpecDetect == DetectInit /\ [][NextDetect]_vars

\* --------------------------------------- Review & Release to Production

\* A run of the validation workflow, with what the repository holds when it
\* ends: the branch validated, whether the environment Production Release has
\* been set up with required reviewers, the contents of the VERSION file
\* ("absent" when there is none) and whether a pull request is related.
WorkflowStart(branch, configured, version, relatedPR) ==
  [validation |-> "running", branch |-> branch, configured |-> configured,
   version |-> version, relatedPR |-> relatedPR,
   notifyReview |-> "pending", approvalGate |-> "pending",
   productionRelease |-> "pending",
   issue |-> "none", prComment |-> FALSE, approvedBy |-> "nobody",
   tag |-> "none", stopped |-> FALSE]

\* The variables the workflow does not touch.
otherVars == <<INPUT, rules, FILE_PATH, pc, idx, tested, stderr, exitCode, runs, procs, detect>>

\* The validation workflow ends, with all checks successful or not.
ValidationEnds ==
  /\ workflow.validation = "running"
  /\ \E outcome \in {"passed", "failed"} :
       workflow' = [workflow EXCEPT !.validation = outcome]
  /\ UNCHANGED otherVars

\* notify-review: runs once validation has passed on main; opens the review
\* issue and comments on the related pull request if there is one.
NotifyReview ==
  /\ workflow.validation = "passed"
  /\ workflow.branch = "main"
  /\ ~workflow.stopped
  /\ workflow.notifyReview = "pending"
  /\ workflow' = [workflow EXCEPT !.notifyReview = "done",
                                  !.issue = "open",
                                  !.prComment = workflow.relatedPR]
  /\ UNCHANGED otherVars

\* approval-gate: the job after notify-review. With the environment set up
\* it waits for a reviewer; the setup is what enables the gate, so without it
\* nothing holds the job.
ApprovalGate ==
  /\ workflow.validation # "idle"
  /\ workflow.notifyReview = "done"
  /\ ~workflow.stopped
  /\ workflow.approvalGate = "pending"
  /\ workflow' = [workflow EXCEPT
                    !.approvalGate = IF workflow.configured THEN "waiting" ELSE "passed"]
  /\ UNCHANGED otherVars

\* A designated reviewer chooses Approve and deploy on the waiting job.
Approve ==
  /\ workflow.validation # "idle"
  /\ workflow.approvalGate = "waiting"
  /\ ~workflow.stopped
  /\ workflow' = [workflow EXCEPT !.approvalGate = "passed", !.approvedBy = "reviewer"]
  /\ UNCHANGED otherVars

\* The release job started as soon as the review notification is out.
ProductionReleaseAfterNotify ==
  /\ workflow.validation # "idle"
  /\ workflow.notifyReview = "done"
  /\ ~workflow.stopped
  /\ workflow.productionRelease = "pending"
  /\ workflow' = [workflow EXCEPT
                    !.productionRelease = "done",
                    !.tag = IF workflow.version = "absent" THEN "1.0.0" ELSE workflow.version,
                    !.issue = "closed"]
  /\ UNCHANGED otherVars

\* production-release: starts once the gate has let the run through; tags
\* the version (1.0.0 without a VERSION file), creates the release and
\* closes the review issue.
ProductionRelease ==
  /\ workflow.validation # "idle"
  /\ workflow.approvalGate = "passed"
  /\ ~workflow.stopped
  /\ workflow.productionRelease = "pending"
  /\ workflow' = [workflow EXCEPT
                    !.productionRelease = "done",
                    !.tag = IF workflow.version = "absent" THEN "1.0.0" ELSE workflow.version,
                    !.issue = "closed"]
  /\ UNCHANGED otherVars

\* The workflow run is stopped in GitHub Actions before it completes.
StopRun ==
  /\ workflow.validation = "passed"
  /\ workflow.notifyReview = "done"
  /\ workflow.productionRelease = "pending"
  /\ ~workflow.stopped
  /\ workflow' = [workflow EXCEPT !.stopped = TRUE]
  /\ UNCHANGED otherVars

NextRelease ==
  \/ ValidationEnds
  \/ NotifyReview
  \/ ApprovalGate
  \/ Approve
  \/ ProductionRelease
  \/ StopRun

\* A validation run under way on some branch of some repository; the hook
\* has not been started and detectFramework has not been called.
ReleaseInit ==
  /\ INPUT = [kind |-> "absent", value |-> <<>>]
  /\ rules = PROTECTED_PATTERNS
  /\ FILE_PATH = <<>>
  /\ pc = "read"
  /\ idx = 0
  /\ tested = <<>>
  /\ stderr = <<>>
  /\ exitCode = NoExit
  /\ runs = <<>>
  /\ procs = <<>>
  /\ detect = NotDetecting
  /\ workflow \in {WorkflowStart(b, c, v, r) :
                     b \in {"main", "feature"}, c \in BOOLEAN,
                     v \in {"absent", "1.0.0", "1.1.0"}, r \in BOOLEAN}

SpecRelease == ReleaseInit /\ [][NextRelease]_vars

\* ------------------------------------------- notions the claims are stated in

\* S occurs in P somewhere, compared character by character.
Contains(P, S) ==
  \E k \in 1..(Len(P) + 1) :
    /\ k + Len(S) - 1 <= Len(P)
    /\ \A j \in 1..Len(S) : P[k + j - 1] = S[j]

\* The occurrence scan of the PATH_SEGMENT match: T starts at index i (from
\* 0), preceded by the start of P or "/", followed by the end of P or "/".
SegmentOccurs(T, P) ==
  \E i \in 0..Len(P) :
    /\ i + Len(T) <= Len(P)
    /\ \A j \in 1..Len(T) : P[i + j] = T[j]
    /\ (i = 0 \/ P[i] = "/")
    /\ (i + Len(T) = Len(P) \/ P[i + Len(T) + 1] = "/")

\* The "/"-delimited segments of P: the maximal runs without "/".
SegmentsOf(P) ==
  {SubSeq(P, a + 1, b) : <<a, b>> \in
     {ab \in (0..Len(P)) \X (0..Len(P)) :
        /\ ab[1] <= ab[2]
        /\ (ab[1] = 0 \/ P[ab[1]] = "/")
        /\ (ab[2] = Len(P) \/ P[ab[2] + 1] = "/")
        /\ \A j \in (ab[1] + 1)..ab[2] : P[j] # "/"}}

\* The table of the specification: .git is PATH_SEGMENT, the rest SUBSTRING.
SubstringPatterns ==
  {PROTECTED_PATTERNS[k] : k \in 1..Len(PROTECTED_PATTERNS)} \ {DotGit}

RuleMatches(pat, P) ==
  IF pat = DotGit THEN SegmentOccurs(pat, P) ELSE Contains(P, pat)

Exited == pc = "exited"
Allowed == Exited /\ exitCode = 0
Blocked == Exited /\ exitCode = 2

\* The position in rules of the pattern the last test was made on.
LastTested == tested[Len(tested)]

\* ---------------------------------------------------------------- claims

\* C1: the .git entry matches a path exactly when the path holds an
\* occurrence of .git preceded by the start or "/" and followed by the end or
\* "/": the regex test of the hook and the occurrence scan agree on every
\* path, and the run of the hook that tests the .git entry blocks at that
\* entry exactly when the scan finds such an occurrence.
C1_GitRegexIsSegmentMatch ==
  pc # "read" =>
    /\ GitRegexMatch(FILE_PATH) <=> SegmentOccurs(DotGit, FILE_PATH)
    /\ \A k \in 1..Len(tested) :
         rules[tested[k]] = DotGit =>
           ((Blocked /\ k = Len(tested)) <=> SegmentOccurs(DotGit, FILE_PATH))

\* C1 witness: a run blocked at the .git entry on a path in which .git is
\* preceded by "/".
C1_Witness ==
  /\ Blocked
  /\ rules[LastTested] = DotGit
  /\ Len(FILE_PATH) > Len(DotGit)
  /\ SegmentOccurs(DotGit, FILE_PATH)

\* Every occurrence of .git in P opens a segment and is followed by another
\* character of the same segment (.github, .gitignore).
GitOnlyAsStrictPrefix(P) ==
  \A i \in 0..Len(P) :
    (i + Len(DotGit) <= Len(P) /\ \A j \in 1..Len(DotGit) : P[i + j] = DotGit[j]) =>
      /\ (i = 0 \/ P[i] = "/")
      /\ i + Len(DotGit) < Len(P)
      /\ P[i + Len(DotGit) + 1] # "/"

NoSubstringPattern(P) == \A pat \in SubstringPatterns : ~Contains(P, pat)

\* C2: a path in which .git occurs, but only as the strict prefix of a longer
\* segment name, and which holds no SUBSTRING pattern, is Allowed with nothing
\* reported; so are .github/workflows/ci.yml, repo/.github, .gitignore and
\* /workspace/project/.github/workflows/deploy.yml.
C2_GithubAllowed ==
  Exited =>
    /\ ( /\ Contains(FILE_PATH, DotGit)
         /\ GitOnlyAsStrictPrefix(FILE_PATH)
         /\ NoSubstringPattern(FILE_PATH) ) => (Allowed /\ stderr = <<>>)
    /\ FILE_PATH \in {GithubCiYml, RepoGithub, Gitignore, GithubDeployYml} => Allowed

\* C2 witness: the deploy.yml request of the end-to-end scenario has been
\* allowed.
C2_Witness ==
  /\ Allowed
  /\ FILE_PATH = GithubDeployYml
  /\ Contains(FILE_PATH, DotGit)
  /\ GitOnlyAsStrictPrefix(FILE_PATH)

\* C3: a path with .git as a complete "/"-delimited segment is Blocked and
\* reported, wherever the segment sits; so are .git, .git/config, repo/.git,
\* a/.git and a/.git/objects.
C3_GitSegmentBlocked ==
  Exited =>
    /\ DotGit \in SegmentsOf(FILE_PATH) => (Blocked /\ stderr # <<>>)
    /\ FILE_PATH \in {DotGit, GitConfig, RepoGit, AGit, AGitObjects} => Blocked

\* C3 witness: a/.git/objects, whose .git segment is in the middle, has been
\* blocked.
C3_Witness ==
  /\ Blocked
  /\ FILE_PATH = AGitObjects
  /\ DotGit \in SegmentsOf(FILE_PATH)

\* The positions 1..n in order: the tests of a loop that reached position n.
UpTo(n) == [k \in 1..n |-> k]

\* C4: the decision is Blocked exactly when some rule of the list matches the
\* path under its match kind, and Allowed exactly when every rule has been
\* tested and none matches; src/components/UserProfile.tsx is Allowed.
C4_BlockedIffSomeRuleMatches ==
  Exited =>
    /\ Blocked <=> \E k \in 1..Len(rules) : RuleMatches(rules[k], FILE_PATH)
    /\ Allowed <=> ( /\ tested = UpTo(Len(rules))
                     /\ \A k \in 1..Len(rules) : ~RuleMatches(rules[k], FILE_PATH) )
    /\ FILE_PATH = UserProfileTsx => Allowed

\* C4 witness: the negative control has been allowed after the whole list was
\* tested.
C4_Witness ==
  /\ Allowed
  /\ FILE_PATH = UserProfileTsx
  /\ Len(tested) = Len(PROTECTED_PATTERNS)

\* The first rule of the list that matches P (0 when none does).
FirstMatching(list, P) ==
  LET hits == {k \in 1..Len(list) : RuleMatches(list[k], P)}
  IN  IF hits = {} THEN 0 ELSE CHOOSE k \in hits : \A j \in hits : k <= j

\* C5: the diagnostic stream never holds more than one block report, and holds
\* one only once the run has exited with 2; a blocked run stopped at the first
\* rule in list order that matches: the rules tested are exactly those up to
\* it, the report names the path and that rule's pattern with the reason
\* "Matches protected pattern '<pattern>'", and nothing runs afterwards.
C5_FirstMatchShortCircuits ==
  /\ stderr # <<>> => Blocked
  /\ Blocked =>
       LET m == FirstMatching(rules, FILE_PATH)
       IN  /\ m > 0
           /\ tested = UpTo(m)
           /\ Len(stderr) = 3
           /\ stderr[1] = <<"Blocked: Cannot edit '", FILE_PATH, "'">>
           /\ stderr[2] = <<"   Reason: ", "Matches protected pattern '", rules[m], "'">>
           /\ ~ENABLED Next

\* C5 witness: secrets/.env matches the first and the ninth rule and has been
\* blocked with only the first tested.
C5_Witness ==
  /\ Blocked
  /\ FILE_PATH = SecretsEnv
  /\ Cardinality({k \in 1..Len(rules) : RuleMatches(rules[k], FILE_PATH)}) = 2
  /\ tested = <<1>>


\* C6: every run ends, after at most one pass over the list (each rule is
\* tested at most once, in list order), in exactly one of the two outcomes
\* exit 0 and exit 2; a run that has not ended can always take a step, and
\* none has an exit status before it ends.
C6_Total ==
  /\ [](/\ pc \in {"read", "loop", "exited"}
        /\ Len(tested) <= Len(rules)
        /\ tested = UpTo(Len(tested))
        /\ Exited => (exitCode \in {0, 2} /\ (Allowed \/ Blocked) /\ ~(Allowed /\ Blocked))
        /\ ~Exited => (exitCode = NoExit /\ ENABLED Next))
  /\ <>Exited

\* C6 witness: a run on a non-empty path that made one full pass over a
\* reordered default table and ended with exit 0.
C6_Witness ==
  /\ Exited
  /\ exitCode = 0
  /\ rules \in Reorderings \ {PROTECTED_PATTERNS}
  /\ tested = UpTo(Len(PROTECTED_PATTERNS))
  /\ Len(FILE_PATH) > 0

C8_SubstringAnywhereBlocked ==
  Exited =>
    /\ (\E pat \in SubstringPatterns : Contains(FILE_PATH, pat)) => Blocked
    /\ FILE_PATH \in {BackendEnvProduction, ConfigSecretsDbJson} => Blocked

\* C8 witness: backend/.env.production, where .env sits inside a longer
\* segment name after a directory, has been blocked.
C8_Witness ==
  /\ Blocked
  /\ FILE_PATH = BackendEnvProduction
  /\ ~SegmentOccurs(PROTECTED_PATTERNS[1], FILE_PATH)
  /\ Contains(FILE_PATH, PROTECTED_PATTERNS[1])

\* C9: under a reordering of the default table the run ends with the exit
\* status the default order gives for the same path.
C9_OrderIndependentOutcome ==
  (Exited /\ rules \in Reorderings) =>
    exitCode = Evaluate(FILE_PATH, PROTECTED_PATTERNS)

\* C9 witness: a run under a reordered table was blocked and reported another
\* pattern than the default order reports for the path.
C9_Witness ==
  /\ Blocked
  /\ rules \in Reorderings \ {PROTECTED_PATTERNS}
  /\ rules[LastTested] #
       PROTECTED_PATTERNS[FirstMatching(PROTECTED_PATTERNS, FILE_PATH)]

\* The positions of the rules of the list that match P.
MatchingRules(list, P) == {k \in 1..Len(list) : RuleMatches(list[k], P)}

\* C10 as claimed: no path matches two different rules of the default table,
\* the pair .git/ and .git excepted.
C10_MutuallyExclusive ==
  Exited =>
    \A j, k \in MatchingRules(rules, FILE_PATH) :
      j # k => {rules[j], rules[k]} = {PROTECTED_PATTERNS[6], PROTECTED_PATTERNS[7]}

\* C10 amended: a path may match several rules of the default table (a path
\* matching .env.local or .env.*.local always matches .env too); every path
\* that matches two or more rules is Blocked and the pattern reported is that
\* of the earliest of them.
C10_OverlapBlockedAtEarliest ==
  Exited =>
    LET hits == MatchingRules(rules, FILE_PATH)
    IN  /\ (hits \cap {2, 3} # {}) => 1 \in hits
        /\ Cardinality(hits) >= 2 =>
             /\ Blocked
             /\ \A k \in hits : LastTested <= k
             /\ LastTested \in hits
             /\ stderr[2][3] = rules[LastTested]

\* C10 witness: a blocked path that matches two rules other than the .git/
\* and .git pair.
C10_Witness ==
  /\ Blocked
  /\ \E j, k \in MatchingRules(rules, FILE_PATH) :
       /\ j # k
       /\ {rules[j], rules[k]} # {PROTECTED_PATTERNS[6], PROTECTED_PATTERNS[7]}

\* Some occurrence of S in P is preceded by the start of P or by "/".
OpensSegment(P, S) ==
  \E i \in 0..Len(P) :
    /\ i + Len(S) <= Len(P)
    /\ \A j \in 1..Len(S) : P[i + j] = S[j]
    /\ (i = 0 \/ P[i] = "/")

\* C11 as claimed: every path the .git/ substring rule matches is matched by
\* the .git segment rule too, and the table without .git/ decides every path
\* as the default table does.
C11_GitSlashRedundant ==
  Exited =>
    /\ SubstringMatch(FILE_PATH, GitSlash) => GitRegexMatch(FILE_PATH)
    /\ exitCode = Evaluate(FILE_PATH, TableWithoutGitSlash)

\* C11 amended: the .git segment rule matches a path the .git/ rule matches
\* whenever an occurrence of .git/ opens a segment, and where the two
\* disagree .git/ occurs only inside longer segment names (repo.git/HEAD);
\* taking .git/ out of the table changes the decision exactly for the paths
\* that hold .git/, no .git segment and no other pattern, from Blocked to
\* Allowed.
C11_GitSlashCoversMore ==
  Exited =>
    LET P == FILE_PATH
        onlyGitSlash ==
          /\ Contains(P, GitSlash)
          /\ ~SegmentOccurs(DotGit, P)
          /\ \A pat \in SubstringPatterns \ {GitSlash} : ~Contains(P, pat)
    IN  /\ OpensSegment(P, GitSlash) => GitRegexMatch(P)
        /\ (SubstringMatch(P, GitSlash) /\ ~GitRegexMatch(P)) =>
             (Contains(P, GitSlash) /\ ~OpensSegment(P, GitSlash))
        /\ (exitCode # Evaluate(P, TableWithoutGitSlash)) <=> onlyGitSlash
        /\ onlyGitSlash => (Blocked /\ Evaluate(P, TableWithoutGitSlash) = 0)

\* C11 witness: repo.git/HEAD has been blocked at the .git/ entry, and the
\* table without that entry allows it.
C11_Witness ==
  /\ Blocked
  /\ FILE_PATH = RepoGitHead
  /\ rules[LastTested] = GitSlash
  /\ ~GitRegexMatch(FILE_PATH)
  /\ Evaluate(FILE_PATH, TableWithoutGitSlash) = 0

\* C12: runs of the hook on the same path under the same rule list end alike,
\* whatever ran before or in between: the same exit status and the same
\* report (path, pattern, reason); and the exit status of every run is the
\* one the loop gives for its path and its list, whatever came before.
C12_SameInputSameResult ==
  /\ \A a, b \in 1..Len(runs) :
       (runs[a].path = runs[b].path /\ runs[a].rules = runs[b].rules) =>
         (runs[a].exitCode = runs[b].exitCode /\ runs[a].stderr = runs[b].stderr)
  /\ \A a \in 1..Len(runs) :
       /\ runs[a].exitCode = Evaluate(runs[a].path, runs[a].rules)
       /\ (Exited /\ runs[a].path = FILE_PATH /\ runs[a].rules = rules) =>
            (runs[a].exitCode = exitCode /\ runs[a].stderr = stderr)

\* C12 witness: a path was blocked, another path was evaluated, and the first
\* path has been blocked again.
C12_Witness ==
  /\ Blocked
  /\ Len(runs) = 2
  /\ runs[1].path = FILE_PATH
  /\ runs[2].path # FILE_PATH
  /\ runs[2].exitCode = 2
  /\ runs[1].stderr = stderr

\* C13: no step of any run changes the rule list, and every run that has
\* ended ran under the list the hook still has.
C13_RulesImmutable ==
  /\ [][rules' = rules]_vars
  /\ [](\A a \in 1..Len(runs) : runs[a].rules = rules)

\* C13 witness: after an allowed and a blocked run a third run has ended and
\* the list is one of the lists the hook started with.
C13_Witness ==
  /\ Exited
  /\ Len(runs) = 2
  /\ {runs[1].exitCode, runs[2].exitCode} = {0, 2}
  /\ rules = Reverse(PROTECTED_PATTERNS)

\* The report a run leaves when it runs alone: none when no rule matches,
\* else the three lines for the first rule that does.
AloneReport(P, list) ==
  IF FirstMatching(list, P) = 0 THEN <<>>
  ELSE BlockReport(P, list[FirstMatching(list, P)])

\* C14: with several hook processes stepping in any interleaving, each one
\* that has ended has the exit status and the report it has when it runs
\* alone on its request.
C14_ConcurrentCallersIndependent ==
  /\ Exited =>
       /\ exitCode = Evaluate(ExtractFilePath(INPUT), rules)
       /\ stderr = AloneReport(ExtractFilePath(INPUT), rules)
  /\ \A p \in DOMAIN procs :
       procs[p].pc = "exited" =>
         /\ procs[p].exitCode = Evaluate(ExtractFilePath(procs[p].INPUT), rules)
         /\ procs[p].stderr = AloneReport(ExtractFilePath(procs[p].INPUT), rules)

\* C14 witness: two processes started together on different paths have both
\* ended, the first blocked and the other allowed after the whole table.
C14_Witness ==
  /\ Blocked
  /\ procs[1].pc = "exited"
  /\ procs[1].exitCode = 0
  /\ procs[1].idx > Len(rules)
  /\ procs[1].FILE_PATH # FILE_PATH

StarRules == {k \in 1..Len(PROTECTED_PATTERNS) : PROTECTED_PATTERNS[k][1] = "*"}

C18_SegmentNarrowerThanSubstring ==
  Exited =>
    /\ GitRegexMatch(FILE_PATH) => Contains(FILE_PATH, DotGit)
    /\ FILE_PATH \in {DotGithub, XGity, Gitignore} =>
         /\ Contains(FILE_PATH, DotGit)
         /\ ~GitRegexMatch(FILE_PATH)
         /\ Allowed
         /\ \E k \in 1..Len(tested) : rules[tested[k]] = DotGit

\* C18 witness: the run on .github has tested the .git entry, gone on past it
\* and been allowed, although .github holds .git.
C18_Witness ==
  /\ Allowed
  /\ FILE_PATH = DotGithub
  /\ Contains(FILE_PATH, DotGit)
  /\ \E k \in 1..Len(tested) : rules[tested[k]] = DotGit

\* The default rule table as documented: pattern and match kind, in order.
DefaultTable ==
  << [pattern |-> <<".", "e", "n", "v">>,
      matchKind |-> "SUBSTRING"],
     [pattern |-> <<".", "e", "n", "v", ".", "l", "o", "c", "a", "l">>,
      matchKind |-> "SUBSTRING"],
     [pattern |-> <<".", "e", "n", "v", ".", "*", ".", "l", "o", "c", "a", "l">>,
      matchKind |-> "SUBSTRING"],
     [pattern |-> <<"p", "a", "c", "k", "a", "g", "e", "-", "l", "o", "c", "k", ".", "j", "s", "o", "n">>,
      matchKind |-> "SUBSTRING"],
     [pattern |-> <<"y", "a", "r", "n", ".", "l", "o", "c", "k">>,
      matchKind |-> "SUBSTRING"],
     [pattern |-> <<".", "g", "i", "t", "/">>,
      matchKind |-> "SUBSTRING"],
     [pattern |-> <<".", "g", "i", "t">>,
      matchKind |-> "PATH_SEGMENT"],
     [pattern |-> <<"c", "r", "e", "d", "e", "n", "t", "i", "a", "l", "s", ".", "j", "s", "o", "n">>,
      matchKind |-> "SUBSTRING"],
     [pattern |-> <<"s", "e", "c", "r", "e", "t", "s">>,
      matchKind |-> "SUBSTRING"],
     [pattern |-> <<".", "a", "w", "s", "/", "c", "r", "e", "d", "e", "n", "t", "i", "a", "l", "s">>,
      matchKind |-> "SUBSTRING"],
     [pattern |-> <<".", "s", "s", "h", "/">>,
      matchKind |-> "SUBSTRING"],
     [pattern |-> <<"*", ".", "p", "e", "m">>,
      matchKind |-> "SUBSTRING"],
     [pattern |-> <<"*", ".", "k", "e", "y">>,
      matchKind |-> "SUBSTRING"],
     [pattern |-> <<"*", ".", "c", "e", "r", "t">>,
      matchKind |-> "SUBSTRING"] >>

\* A rule of the documented table applied to P under its match kind.
KindMatches(rule, P) ==
  IF rule.matchKind = "PATH_SEGMENT"
  THEN SegmentOccurs(rule.pattern, P)
  ELSE Contains(P, rule.pattern)

\* C19: the array of the hook holds the patterns of the documented table,
\* entry by entry in the same order; exactly one entry, .git, is of kind
\* PATH_SEGMENT; the test the loop makes on each entry agrees on every path
\* with the documented rule at the same position under its kind, and a run
\* is blocked exactly when a documented rule matches, at the first that does.
C19_HookTableIsDefaultTable ==
  /\ Len(PROTECTED_PATTERNS) = Len(DefaultTable)
  /\ \A k \in 1..Len(DefaultTable) : PROTECTED_PATTERNS[k] = DefaultTable[k].pattern
  /\ \A k \in 1..Len(DefaultTable) :
       DefaultTable[k].matchKind = "PATH_SEGMENT" <=> DefaultTable[k].pattern = DotGit
  /\ rules = PROTECTED_PATTERNS
  /\ Exited =>
       LET hits == {k \in 1..Len(DefaultTable) : KindMatches(DefaultTable[k], FILE_PATH)}
       IN  /\ \A k \in 1..Len(rules) : Matches(FILE_PATH, rules[k]) <=> k \in hits
           /\ Blocked <=> hits # {}
           /\ Blocked => (LastTested \in hits /\ \A k \in hits : LastTested <= k)

\* C19 witness: repo/.git has passed the six entries before .git, all of kind
\* SUBSTRING, and was blocked at the one entry of kind PATH_SEGMENT.
C19_Witness ==
  /\ Blocked
  /\ FILE_PATH = RepoGit
  /\ DefaultTable[LastTested].matchKind = "PATH_SEGMENT"
  /\ \A k \in 1..(Len(tested) - 1) : DefaultTable[tested[k]].matchKind = "SUBSTRING"
  /\ Len(tested) > 1

\* The project holds one of the definitive markers.
HasDefinitiveMarker(p) ==
  p.csproj \/ p.sln \/ p.managePy \/ p.nextConfigJs \/ p.nextConfigMjs

\* One of the supporting-evidence or weak-evidence conditions holds of the
\* project.
HasOtherEvidence(p) ==
  \/ p.packageJson /\ (p.depsNext \/ p.depsDjango)
  \/ p.requirementsTxt /\ (p.orReading = "truthy" \/ p.reqDjango)
  \/ p.appsettings
  \/ p.appDir /\ p.packageJson

\* The checks for definitive markers.
DefinitiveChecks == {"dotnet_marker", "django_marker", "nextjs_marker"}

JobsInOrder ==
  /\ workflow.notifyReview = "done" => workflow.validation = "passed"
  /\ workflow.approvalGate # "pending" => workflow.notifyReview = "done"
  /\ workflow.productionRelease = "done" => workflow.approvalGate = "passed"
  /\ workflow.validation = "failed" =>
       /\ workflow.notifyReview = "pending"
       /\ workflow.approvalGate = "pending"
       /\ workflow.productionRelease = "pending"

GitAt(P, i) ==
  /\ i + Len(DotGit) <= Len(P)
  /\ \A j \in 1..Len(DotGit) : P[i + j] = DotGit[j]

\* The occurrence of .git at i stands between boundaries: the start of P or
\* "/" before it, the end of P or "/" after it.
PassesBoundary(P, i) ==
  /\ GitAt(P, i)
  /\ (i = 0 \/ P[i] = "/")
  /\ (i + Len(DotGit) = Len(P) \/ P[i + Len(DotGit) + 1] = "/")

\* P holds an occurrence of .git that fails the boundary test and, after it,
\* one that passes.
LateSegment(P) ==
  \E i, j \in 0..Len(P) :
    /\ i < j
    /\ GitAt(P, i)
    /\ ~PassesBoundary(P, i)
    /\ PassesBoundary(P, j)

\* C22: a path in which an occurrence of .git fails the boundary test and a
\* later one passes is accepted by the regex test and Blocked;
\* .github/sub/.git and x.gity/.git/config are such paths, and the first is
\* reported with the pattern .git.
C22_LaterOccurrenceStillMatches ==
  Exited =>
    /\ LateSegment(FILE_PATH) => (GitRegexMatch(FILE_PATH) /\ Blocked)
    /\ FILE_PATH \in {GithubSubGit, XGityGitConfig} => (LateSegment(FILE_PATH) /\ Blocked)
    /\ FILE_PATH = GithubSubGit => rules[LastTested] = DotGit

\* C22 witness: .github/sub/.git, whose first .git opens .github and whose
\* second is a whole segment, has been blocked at the .git entry.
C22_Witness ==
  /\ Blocked
  /\ FILE_PATH = GithubSubGit
  /\ LateSegment(FILE_PATH)
  /\ ~PassesBoundary(FILE_PATH, 0)
  /\ rules[LastTested] = DotGit

\* The entries .env, .env.local and .env.*.local of the table.
DotEnv == <<".", "e", "n", "v">>

DotEnvLocal == <<".", "e", "n", "v", ".", "l", "o", "c", "a", "l">>

DotEnvStarLocal == <<".", "e", "n", "v", ".", "*", ".", "l", "o", "c", "a", "l">>

\* C23: under the default order every path that holds .env.local or
\* .env.*.local holds .env and is blocked with .env reported; no run ends
\* with .env.local or .env.*.local as the pattern of its report, and
\* .env.production.local is blocked with .env reported.
C23_EnvLocalRulesShadowed ==
  Exited =>
    /\ (Contains(FILE_PATH, DotEnvLocal) \/ Contains(FILE_PATH, DotEnvStarLocal)) =>
         /\ Contains(FILE_PATH, DotEnv)
         /\ Blocked
         /\ stderr[2][3] = DotEnv
    /\ Blocked => stderr[2][3] \notin {DotEnvLocal, DotEnvStarLocal}
    /\ FILE_PATH = EnvProductionLocal => (Blocked /\ stderr[2][3] = DotEnv)

\* C23 witness: app/.env.local, which holds the whole pattern .env.local, was
\* blocked at the first entry and reported with .env.
C23_Witness ==
  /\ Blocked
  /\ FILE_PATH = AppEnvLocal
  /\ Contains(FILE_PATH, DotEnvLocal)
  /\ tested = <<1>>
  /\ stderr[2][3] = DotEnv

\* The pattern the report of a blocked run names.
Reported == stderr[2][3]

\* P holds a whole segment .git that is followed by "/".
GitSegmentThenSlash(P) ==
  \E i \in 0..Len(P) :
    /\ PassesBoundary(P, i)
    /\ i + Len(DotGit) < Len(P)

\* P ends with a whole segment .git.
GitSegmentLast(P) ==
  /\ Len(P) >= Len(DotGit)
  /\ PassesBoundary(P, Len(P) - Len(DotGit))

\* One of the entries of the default table before position k holds for P.
EarlierRuleMatches(P, k) ==
  \E j \in 1..(k - 1) : RuleMatches(PROTECTED_PATTERNS[j], P)

\* C24 as claimed: a run reports .git only on a path that ends with the
\* segment .git and matches no earlier entry, and every path in which a
\* segment .git is followed by "/" is reported with .git/.
C24_GitSlashReportedForInnerSegment ==
  Exited =>
    /\ (Blocked /\ Reported = DotGit) =>
         (GitSegmentLast(FILE_PATH) /\ ~EarlierRuleMatches(FILE_PATH, 7))
    /\ GitSegmentThenSlash(FILE_PATH) => (Blocked /\ Reported = GitSlash)

\* C24 amended: a run reports .git only on a path that ends with the segment
\* .git and matches no earlier entry; a path in which a segment .git is
\* followed by "/" is blocked and never reported with .git: it is reported
\* with .git/ exactly when none of the five entries before .git/ matches it,
\* and with the first of those that does otherwise (.git/.env reports .env).
C24_GitSlashReportedUnlessEarlierRule ==
  Exited =>
    /\ (Blocked /\ Reported = DotGit) =>
         (GitSegmentLast(FILE_PATH) /\ ~EarlierRuleMatches(FILE_PATH, 7))
    /\ (GitSegmentLast(FILE_PATH) /\ ~EarlierRuleMatches(FILE_PATH, 7)) =>
         (Blocked /\ Reported = DotGit)
    /\ GitSegmentThenSlash(FILE_PATH) =>
         /\ Blocked
         /\ Reported # DotGit
         /\ Reported = GitSlash <=> ~EarlierRuleMatches(FILE_PATH, 6)
         /\ EarlierRuleMatches(FILE_PATH, 6) =>
              Reported = PROTECTED_PATTERNS[FirstMatching(PROTECTED_PATTERNS, FILE_PATH)]

\* C24 witness: a/.git/objects, whose segment .git is followed by "/", went
\* past the first five entries and was blocked at .git/, one entry before
\* .git.
C24_Witness ==
  /\ Blocked
  /\ FILE_PATH = AGitObjects
  /\ GitSegmentThenSlash(FILE_PATH)
  /\ Reported = GitSlash
  /\ tested = UpTo(6)

\* C25: a path that holds .git/ but no whole segment .git is Blocked, and
\* reported with .git/ when no earlier entry matches; repo.git/HEAD and
\* vendor/lib.git/config are such paths. A path that holds .git only with
\* more of the segment name after it, and no substring pattern, is Allowed:
\* the boundary is tested after .git and not before .git/.
C25_GitSlashHasNoLeadingBoundary ==
  Exited =>
    /\ (Contains(FILE_PATH, GitSlash) /\ ~SegmentOccurs(DotGit, FILE_PATH)) =>
         /\ Blocked
         /\ ~EarlierRuleMatches(FILE_PATH, 6) => Reported = GitSlash
    /\ FILE_PATH \in {RepoGitHead, VendorLibGitConfig} =>
         /\ ~SegmentOccurs(DotGit, FILE_PATH)
         /\ Blocked
         /\ Reported = GitSlash
    /\ ( /\ Contains(FILE_PATH, DotGit)
         /\ ~SegmentOccurs(DotGit, FILE_PATH)
         /\ NoSubstringPattern(FILE_PATH) ) => Allowed

\* C25 witness: vendor/lib.git/config, in which .git/ ends the segment
\* lib.git, has been blocked at the .git/ entry.
C25_Witness ==
  /\ Blocked
  /\ FILE_PATH = VendorLibGitConfig
  /\ ~SegmentOccurs(DotGit, FILE_PATH)
  /\ ~OpensSegment(FILE_PATH, GitSlash)
  /\ Reported = GitSlash

\* The positions of P that hold "/".
SlashesOf(P) == {k \in 1..Len(P) : P[k] = "/"}

\* C26: a path that, cut at one of its "/", leaves on the right or on the
\* left a path the loop of the hook exits 2 on, is itself Blocked; a path
\* that opens with a blocked path without a "/" after it need not be: .git is
\* blocked and .github is Allowed.
C26_BlockedUnderDirectoryContext ==
  Exited =>
    /\ \A k \in SlashesOf(FILE_PATH) :
         /\ Evaluate(SubSeq(FILE_PATH, k + 1, Len(FILE_PATH)), rules) = 2 => Blocked
         /\ Evaluate(SubSeq(FILE_PATH, 1, k - 1), rules) = 2 => Blocked
    /\ FILE_PATH = DotGithub =>
         /\ Allowed
         /\ Evaluate(SubSeq(FILE_PATH, 1, Len(DotGit)), rules) = 2

\* C26 witness: a/b/repo/.git, a blocked path under two more directories,
\* has been blocked; alone, repo/.git is blocked and a/b is not.
C26_Witness ==
  /\ Blocked
  /\ FILE_PATH = <<"a", "/", "b", "/">> \o RepoGit
  /\ Evaluate(RepoGit, rules) = 2
  /\ Evaluate(<<"a", "/", "b">>, rules) = 0

\* P with every backslash turned into "/".
SlashNormalized(P) == [j \in 1..Len(P) |-> IF P[j] = "\\" THEN "/" ELSE P[j]]

\* C27: the loop compares the characters of the path as they are: .ENV,
\* .GIT/config and SECRETS/db.json are Allowed although their lower-case forms
\* are blocked, and .git\config is Allowed although the same path with "/"
\* for the backslash is blocked; whenever a run is allowed, none of the
\* patterns occurs in the path character for character.
C27_NoNormalization ==
  Exited =>
    /\ FILE_PATH \in {DotEnvUpper, GitUpperConfig, SecretsUpperDbJson} =>
         /\ Allowed
         /\ stderr = <<>>
         /\ Evaluate(Lower(FILE_PATH), rules) = 2
    /\ FILE_PATH = GitBackslashConfig =>
         /\ Allowed
         /\ stderr = <<>>
         /\ Evaluate(SlashNormalized(FILE_PATH), rules) = 2
    /\ Allowed => \A k \in 1..Len(rules) : ~RuleMatches(rules[k], FILE_PATH)
    /\ (Lower(FILE_PATH) # FILE_PATH /\ NoSubstringPattern(FILE_PATH)
          /\ ~SegmentOccurs(DotGit, FILE_PATH)) => Allowed

\* C27 witness: SECRETS/db.json has passed the whole table and was allowed,
\* and its lower-case form secrets/db.json is a path the loop exits 2 on.
C27_Witness ==
  /\ Allowed
  /\ FILE_PATH = SecretsUpperDbJson
  /\ Len(tested) = Len(PROTECTED_PATTERNS)
  /\ Evaluate(Lower(FILE_PATH), rules) = 2

\* The check that decided a call that has returned a framework: the last one
\* made.
DecidingCheck == detect.consulted[Len(detect.consulted)]

\* The two Priority 3 checks that ask again for a Priority 1 marker.
RepeatedChecks == {"manage_py_weak", "csproj_weak"}

\* C28: when detectFramework comes to one of the Priority 3 checks for
\* manage.py and *.csproj the project holds neither file, so neither check
\* hits: no call is decided by one of them, and a call decided by a
\* Priority 3 check is decided by the one for app/ and package.json.
C28_RepeatedChecksNeverDecide ==
  /\ detect.step \in RepeatedChecks \cup {"no_match"} =>
       (~detect.project.managePy /\ ~detect.project.csproj)
  /\ (detect.step = "returned" /\ detect.result # "unknown") =>
       /\ DecidingCheck \notin RepeatedChecks
       /\ DecidingCheck \notin DefinitiveChecks
            \cup {"package_json", "requirements_txt", "appsettings_json"}
          => (DecidingCheck = "app_directory" /\ detect.result = "nextjs")
  /\ detect.step = "returned" /\ detect.result = "unknown" =>
       RepeatedChecks \subseteq {detect.consulted[k] : k \in 1..Len(detect.consulted)}

\* C28 witness: a call on a project with app/ and a package.json that does
\* not name next came to the Priority 3 checks and was decided by the one
\* for app/.
C28_Witness ==
  /\ detect.step = "returned"
  /\ DecidingCheck = "app_directory"
  /\ detect.result = "nextjs"
  /\ detect.project.appDir
  /\ detect.project.packageJson
  /\ ~detect.project.depsNext

=============================================================================
